---- MODULE Spec2Model ----
(***************************************************************************)
(* A model of pbinfo-api: the login state machine (pbinfo_user/login.rs),  *)
(* the score poller, the retry helper and the top-score aggregation        *)
(* (pbinfo_user/score.rs), and the saving and loading of the configuration *)
(* (pbinfo_user/mod.rs).  The remote site is the environment: every        *)
(* reply it can give is an input drawn from a small set.                   *)
(*                                                                         *)
(* Strings the code inspects character by character (the set-cookie        *)
(* header, the landing page, the form token, a score) are sequences of     *)
(* one-character strings.  In a landing page the letter "M" stands for the *)
(* whole marker  user_autentificat = {"id":  .                             *)
(***************************************************************************)
EXTENDS Integers, Sequences, FiniteSets, TLC

VARIABLES
    session,    \* PbinfoUser: email, password, ssid, form_token, user_id
    lpc,        \* position of the login call
    llog,       \* requests invoked by the login call in flight, in order
    lres,       \* what the last login call returned
    pre,        \* the session as it was when the login call began
    lreplies,   \* per login POST answered: the locals maybe_ssid and val
    lprobes,    \* the results of the identity probes of the call in flight
    ppc,        \* position of the pool_score call
    tries,      \* pool_score's countdown
    plog,       \* what the pool_score call has done so far, in order
    value,      \* the payload of the DoneExecuting status, once there is one
    pres,       \* what the pool_score call returned
    rpc,        \* position of the try_repeated call
    attempts,   \* try_repeated's argument
    rcalls,     \* the outcomes of the invocations of f made so far
    rres,       \* what the try_repeated call returned
    tpc,        \* position of the get_top_score call
    tmade,      \* invocations made by the try_repeated in progress
    tlog,       \* the requests of the get_top_score call and their replies
    sol_number, \* the total read from the count probe
    tres,       \* what the get_top_score call returned
    gmax,       \* how many get_score calls the caller makes on its own
    glog,       \* those calls: the cookie sent, the reply, the result
    disk,       \* the configuration file
    sres,       \* what the last save_config returned
    saved,      \* the session the file holds from a completed save_config
    loaded      \* what the last get_config returned, and the save it followed

loginVars == <<session, lpc, llog, lres, pre, lreplies, lprobes>>
pollVars == <<ppc, tries, plog, value, pres>>
retryVars == <<rpc, attempts, rcalls, rres>>
topVars == <<tpc, tmade, tlog, sol_number, tres>>
getVars == <<gmax, glog>>
configVars == <<disk, sres, saved, loaded>>

vars == <<loginVars, pollVars, retryVars, topVars, getVars, configVars>>

-----------------------------------------------------------------------------
(* Bounds *)

MaxHeaderLen == 3
MaxBodyLen == 3
MaxTokenLen == 1
MaxPayload == 1
MaxAttempts == 3
MaxValue == 2
MaxSurse == 2
MaxCalls == 2
MaxFieldLen == 1

-----------------------------------------------------------------------------
(* Strings *)

RECURSIVE SeqsUpTo(_, _)
SeqsUpTo(S, n) ==
    IF n = 0 THEN {<<>>}
    ELSE LET shorter == SeqsUpTo(S, n - 1)
         IN  shorter \cup {Append(s, c) : s \in shorter, c \in S}

\* index of the first c in s, 0 when there is none
IndexOf(s, c) ==
    IF \E i \in 1..Len(s) : s[i] = c
    THEN CHOOSE i \in 1..Len(s) : s[i] = c /\ \A j \in 1..(i - 1) : s[j] # c
    ELSE 0

\* str::split on a one-character pattern: always at least one piece
RECURSIVE Split(_, _)
Split(s, c) ==
    LET i == IndexOf(s, c)
    IN  IF i = 0 THEN <<s>>
        ELSE <<SubSeq(s, 1, i - 1)>> \o Split(SubSeq(s, i + 1, Len(s)), c)

\* chars().take_while(|c| c != stop)
TakeWhileNot(s, stop) ==
    LET i == IndexOf(s, stop)
    IN  IF i = 0 THEN s ELSE SubSeq(s, 1, i - 1)

RECURSIVE TrimStartMatches(_, _)
TrimStartMatches(s, c) ==
    IF Len(s) > 0 /\ s[1] = c THEN TrimStartMatches(Tail(s), c) ELSE s

RECURSIVE TrimEndMatches(_, _)
TrimEndMatches(s, c) ==
    IF Len(s) > 0 /\ s[Len(s)] = c
    THEN TrimEndMatches(SubSeq(s, 1, Len(s) - 1), c)
    ELSE s

Quote == "\""
Backslash == "\\"

-----------------------------------------------------------------------------
(* Results *)

Ok(v) == [ok |-> TRUE, v |-> v, err |-> ""]
Err(e) == [ok |-> FALSE, v |-> <<>>, err |-> e]

-----------------------------------------------------------------------------
(* JSON values, as far as the code looks into them *)

JNull == [t |-> "null", s |-> <<>>]
JStr(s) == [t |-> "str", s |-> s]
JNum(digits) == [t |-> "num", s |-> digits]

\* serde_json's escaping of a string's characters
RECURSIVE Escape(_)
Escape(s) ==
    IF s = <<>> THEN <<>>
    ELSE (IF s[1] = Quote \/ s[1] = Backslash THEN <<Backslash, s[1]>> ELSE <<s[1]>>)
         \o Escape(Tail(s))

\* Value::to_string: the JSON text of the value
ValueToString(v) ==
    CASE v.t = "null" -> <<"n", "u", "l", "l">>
      [] v.t = "str"  -> <<Quote>> \o Escape(v.s) \o <<Quote>>
      [] v.t = "num"  -> v.s

\* Value == &str
ValueEqStr(v, lit) == v.t = "str" /\ v.s = lit

-----------------------------------------------------------------------------
(* The site, seen from login *)

\* the two literal status messages (the first has diacritics in the source)
FormExpiredMsg == "Formularul a expirat. Incearca din nou!"
IncorrectMsg == "Utilizator/parola incorecte!"

HeaderAlphabet == {"a", "=", ";"}
BodyAlphabet == {"M", ",", "0", "7"}
TokenAlphabet == {"a", Quote}

\* the set-cookie header of a reply: absent, not visible ASCII, or text
SetCookieHeaders ==
    {[k |-> "absent", s |-> <<>>], [k |-> "opaque", s |-> <<>>]}
    \cup {[k |-> "text", s |-> h] : h \in SeqsUpTo(HeaderAlphabet, MaxHeaderLen)}

\* the raspuns field: one of the messages (kept whole), or not a string
NoMsg == [t |-> "null", s |-> ""]

RaspunsValues ==
    {JStr(FormExpiredMsg), JStr(IncorrectMsg), JStr("Autentificare reusita"), NoMsg}

FormTokenValues ==
    {JNull, JNum(<<"5">>)} \cup {JStr(t) : t \in SeqsUpTo(TokenAlphabet, MaxTokenLen)}

\* a reply to the login POST: the send failed, or a response arrived whose
\* body could not be read, was not JSON, or was the JSON value val.  The
\* form_token field varies only beside the one message with which it is read.
PostReplies ==
    {[send |-> e, header |-> [k |-> "absent", s |-> <<>>], body |-> "",
      raspuns |-> NoMsg, form_token |-> JNull]
        : e \in {"RequestBuildError", "RequestSendError"}}
    \cup {[send |-> "ok", header |-> h, body |-> e,
           raspuns |-> NoMsg, form_token |-> JNull]
        : h \in SetCookieHeaders, e \in {"ResponseParseError", "JsonParseError"}}
    \cup {[send |-> "ok", header |-> h, body |-> "ok",
           raspuns |-> r, form_token |-> JNull]
        : h \in SetCookieHeaders, r \in RaspunsValues}
    \cup {[send |-> "ok", header |-> h, body |-> "ok",
           raspuns |-> JStr(FormExpiredMsg), form_token |-> t]
        : h \in SetCookieHeaders, t \in FormTokenValues}

\* a reply to the landing-page GET
ProbeReplies ==
    {[k |-> e, s |-> <<>>]
        : e \in {"RequestBuildError", "RequestSendError", "ResponseParseError"}}
    \cup {[k |-> "body", s |-> b] : b \in SeqsUpTo(BodyAlphabet, MaxBodyLen)}

-----------------------------------------------------------------------------
(* score.rs: get_score and pool_score *)

PollTries == 60
PollIntervalMs == 1500

StatusValues ==
    {JStr("executing"), JStr("pending"), JStr("complete"), JStr("Executing"), NoMsg}

\* a reply to the evaluation-detail POST: the request or the reading of the
\* body failed, the body was not JSON, or it was the table (status_sursa and,
\* standing for the rest of it, scor)
ScoreReplies ==
    {[k |-> e, status_sursa |-> NoMsg, scor |-> 0]
        : e \in {"GenericError", "ParseJsonError"}}
    \cup {[k |-> "json", status_sursa |-> st, scor |-> sc]
        : st \in StatusValues, sc \in 0..MaxPayload}

StillExecuting == [ok |-> TRUE, status |-> "StillExecuting", value |-> <<>>, err |-> ""]
DoneExecuting(table) ==
    [ok |-> TRUE, status |-> "DoneExecuting", value |-> <<table>>, err |-> ""]
ScoreErr(e) == [ok |-> FALSE, status |-> "", value |-> <<>>, err |-> e]

\* variant: "pending" not taken for still executing
IsStillStatus_OnlyExecuting(status_sursa) == ValueEqStr(status_sursa, "executing")

\* score.rs:69
IsStillStatus(status_sursa) ==
    ValueEqStr(status_sursa, "executing") \/ ValueEqStr(status_sursa, "pending")

\* get_score: one status request
get_score(reply) ==
    IF reply.k # "json" THEN ScoreErr(reply.k)
    ELSE IF IsStillStatus(reply.status_sursa) THEN StillExecuting
    ELSE DoneExecuting(reply)

\* variant: the loop test off by one
LoopContinues_OffByOne(t) == t >= 0

\* score.rs:83
LoopContinues(t) == t > 0

\* the entries of plog: a wait, a fetch of the loop, the fetch after it; a
\* fetch is logged with its outcome and, when DoneExecuting, with its table
\* (a fetch also with the cookie it sent: score.rs:49)
Sleep ==
    [ev |-> "sleep", ms |-> PollIntervalMs, status |-> "", table |-> <<>>,
     ssid |-> <<>>, err |-> ""]
Logged(ev, r) ==
    [ev |-> ev, ms |-> 0, status |-> IF r.ok THEN r.status ELSE "Err",
     table |-> r.value, ssid |-> session.ssid, err |-> r.err]

PollReturn(result) ==
    /\ ppc' = "done"
    /\ pres' = result

\* variant: no wait before the first fetch
PollStart_NoWait ==
    /\ ppc = "start"
    /\ tries' = PollTries
    /\ IF LoopContinues(tries')
       THEN ppc' = "fetch" /\ UNCHANGED pres
       ELSE PollReturn(ScoreErr("TimeoutError"))
    /\ UNCHANGED <<plog, value>>
    /\ UNCHANGED <<loginVars, retryVars, topVars, getVars, configVars>>

\* score.rs:81-82: the wait before the first fetch
PollStart ==
    /\ ppc = "start"
    /\ tries' = PollTries
    /\ plog' = Append(plog, Sleep)
    /\ IF LoopContinues(tries')
       THEN ppc' = "fetch" /\ UNCHANGED pres
       ELSE PollReturn(ScoreErr("TimeoutError"))
    /\ UNCHANGED value
    /\ UNCHANGED <<loginVars, retryVars, topVars, getVars, configVars>>

\* score.rs:84-88: one fetch of the loop
PollFetch ==
    /\ ppc = "fetch"
    /\ \E reply \in ScoreReplies :
        LET r == get_score(reply)
        IN  IF ~r.ok
            THEN /\ plog' = Append(plog, Logged("fetch", r))
                 /\ PollReturn(r)
                 /\ UNCHANGED value
            ELSE /\ plog' = Append(plog, Logged("fetch", r))
                 /\ ppc' = IF r.status = "StillExecuting" THEN "sleep" ELSE "extra"
                 /\ value' = r.value
                 /\ UNCHANGED pres
    /\ UNCHANGED tries
    /\ UNCHANGED <<loginVars, retryVars, topVars, getVars, configVars>>

\* score.rs:86 and 95-98: the wait after StillExecuting, the countdown and
\* the loop test
PollSleep ==
    /\ ppc = "sleep"
    /\ plog' = Append(plog, Sleep)
    /\ tries' = tries - 1
    /\ IF LoopContinues(tries')
       THEN ppc' = "fetch" /\ UNCHANGED pres
       ELSE PollReturn(ScoreErr("TimeoutError"))
    /\ UNCHANGED value
    /\ UNCHANGED <<loginVars, retryVars, topVars, getVars, configVars>>

\* variant: an error of the last force_reload returned to the caller
PollExtraFetch_Propagates ==
    /\ ppc = "extra"
    /\ \E reply \in ScoreReplies :
        LET r == get_score(reply)
        IN  /\ plog' = Append(plog, Logged("extra", r))
            /\ IF r.ok
               THEN PollReturn([ok |-> TRUE, status |-> "", value |-> value,
                                err |-> ""])
               ELSE PollReturn(r)
    /\ UNCHANGED <<tries, value>>
    /\ UNCHANGED <<loginVars, retryVars, topVars, getVars, configVars>>

\* score.rs:91-92: the last force_reload, its result dropped
PollExtraFetch ==
    /\ ppc = "extra"
    /\ \E reply \in ScoreReplies :
        plog' = Append(plog, Logged("extra", get_score(reply)))
    /\ PollReturn([ok |-> TRUE, status |-> "", value |-> value, err |-> ""])
    /\ UNCHANGED <<tries, value>>
    /\ UNCHANGED <<loginVars, retryVars, topVars, getVars, configVars>>

\* no pool_score call
PollIdle ==
    /\ ppc = "idle"
    /\ tries = 0
    /\ plog = <<>>
    /\ value = <<>>
    /\ pres = ScoreErr("not returned")

InitPoll ==
    /\ ppc = "start"
    /\ tries = 0
    /\ plog = <<>>
    /\ value = <<>>
    /\ pres = ScoreErr("not returned")

NextPoll ==
    \/ PollStart
    \/ PollFetch
    \/ PollSleep
    \/ PollExtraFetch

\* the pool_score call that has fetched StillExecuting k times
RECURSIVE StillRounds(_)
StillRounds(k) ==
    IF k = 0 THEN <<Sleep>>
    ELSE StillRounds(k - 1) \o <<Logged("fetch", StillExecuting), Sleep>>

\* a pool_score call about to make the last fetch of its loop
PollLate ==
    /\ ppc = "fetch"
    /\ tries = 1
    /\ plog = StillRounds(PollTries - 1)
    /\ value = <<>>
    /\ pres = ScoreErr("not returned")

-----------------------------------------------------------------------------
(* score.rs: get_score called by the user of the library (mod.rs:181-183) *)

\* variant: the call keeps a cookie of its own making in the session
GetScoreCall_KeepsCookie ==
    /\ Len(glog) < gmax
    /\ \E reply \in ScoreReplies :
        glog' = Append(glog, [ssid |-> session.ssid, reply |-> reply,
                              result |-> get_score(reply)])
    /\ session' = [session EXCEPT !.ssid = <<"n">>]
    /\ UNCHANGED gmax
    /\ UNCHANGED <<lpc, llog, lres, pre, lreplies, lprobes>>
    /\ UNCHANGED <<pollVars, retryVars, topVars, configVars>>

\* one get_score call: the request carries the session's cookie
GetScoreCall ==
    /\ Len(glog) < gmax
    /\ \E reply \in ScoreReplies :
        glog' = Append(glog, [ssid |-> session.ssid, reply |-> reply,
                              result |-> get_score(reply)])
    /\ UNCHANGED gmax
    /\ UNCHANGED <<loginVars, pollVars, retryVars, topVars, configVars>>

\* no get_score call of the caller's own
GetIdle ==
    /\ gmax = 0
    /\ glog = <<>>

InitGet(n) ==
    /\ gmax = n
    /\ glog = <<>>

-----------------------------------------------------------------------------
(* score.rs: try_repeated *)

ROk(v) == [ok |-> TRUE, v |-> v, err |-> ""]
RErr(e) == [ok |-> FALSE, v |-> 0, err |-> e]

\* what an invocation of f can produce
Outcomes == {ROk(v) : v \in 1..MaxValue} \cup {RErr(e) : e \in {"e1", "e2"}}

\* variant: a success inside the loop does not return
try_repeated_returns_NoShortCircuit(n, made, r) == made >= n

\* variant: no invocation after the loop, the loop's last outcome returned
try_repeated_returns_NoExtraCall(n, made, r) ==
    IF made + 1 < n THEN r.ok ELSE TRUE

\* variant: the loop runs once too often
try_repeated_returns_OneMore(n, made, r) ==
    IF made <= n THEN r.ok ELSE TRUE

\* score.rs:125-131: whether try_repeated returns the outcome r of the
\* invocation made after `made` earlier ones: inside the loop only a success
\* returns, after the loop anything does
try_repeated_returns(n, made, r) ==
    IF made < n THEN r.ok ELSE TRUE

\* one invocation of f by try_repeated
RetryInvoke ==
    /\ rpc = "calling"
    /\ \E r \in Outcomes :
        /\ rcalls' = Append(rcalls, r)
        /\ IF try_repeated_returns(attempts, Len(rcalls), r)
           THEN rpc' = "done" /\ rres' = r
           ELSE UNCHANGED <<rpc, rres>>
    /\ UNCHANGED attempts
    /\ UNCHANGED <<loginVars, pollVars, topVars, getVars, configVars>>

\* no try_repeated call
RetryIdle ==
    /\ rpc = "idle"
    /\ attempts = 0
    /\ rcalls = <<>>
    /\ rres = RErr("not returned")

InitRetry ==
    /\ rpc = "calling"
    /\ attempts \in 0..MaxAttempts
    /\ rcalls = <<>>
    /\ rres = RErr("not returned")

NextRetry ==
    \/ RetryInvoke

-----------------------------------------------------------------------------
(* score.rs: get_top_score *)

TopAttempts == 3

\* integers of a JSON reply: a sign and the magnitude in four 16-bit limbs,
\* most significant first
JInt(neg, limbs) == [t |-> "int", neg |-> neg, limbs |-> limbs]
NotInt(t) == [t |-> t, neg |-> FALSE, limbs |-> <<0, 0, 0, 0>>]

\* the numar_total_solutii field: 0, 1, 2^32-1, 2^32, -1, 2^63, or no integer
CountFields ==
    {JInt(FALSE, <<0, 0, 0, 0>>), JInt(FALSE, <<0, 0, 0, 1>>),
     JInt(FALSE, <<0, 0, 65535, 65535>>), JInt(FALSE, <<0, 1, 0, 0>>),
     JInt(TRUE, <<0, 0, 0, 1>>), JInt(FALSE, <<32768, 0, 0, 0>>),
     NotInt("float"), NotInt("str"), NotInt("missing")}

\* Value::as_i64: an integer that fits 64 signed bits
as_i64(v) ==
    IF v.t # "int" THEN [some |-> FALSE, neg |-> FALSE, limbs |-> <<0, 0, 0, 0>>]
    ELSE IF ~v.neg /\ v.limbs[1] >= 32768
    THEN [some |-> FALSE, neg |-> FALSE, limbs |-> <<0, 0, 0, 0>>]
    ELSE [some |-> TRUE, neg |-> v.neg, limbs |-> v.limbs]

\* variant: every total that is not negative taken to fit
fits_u32_NonNegative(i) == ~i.neg

\* u32::try_from(i64).is_ok()
fits_u32(i) == ~i.neg /\ i.limbs[1] = 0 /\ i.limbs[2] = 0

\* variant: the count cut to its low 16 bits
as_u32_Low16(i) == <<0, i.limbs[4]>>

\* i64 as u32: the low 32 bits
as_u32(i) == <<i.limbs[3], i.limbs[4]>>

\* variant: the test for no solution never true
is_zero_Never(n) == n # n

\* score.rs:196
is_zero(n) == n = <<0, 0>>

\* the scor field of an entry of surse
ScoreStrings ==
    {<<"1", "0", "0">>, <<"8", "0">>, <<"4", "5">>, <<"-", "2">>,
     <<"+", "1", "0", "0">>, <<"1", "a">>, <<>>}

ScorFields ==
    {[t |-> "missing", s |-> <<>>], [t |-> "num", s |-> <<"1", "0", "0">>]}
    \cup {JStr(x) : x \in ScoreStrings}

\* the surse field: no array, or an array of entries
NoArray == [arr |-> FALSE, items |-> <<>>]
SurseFields ==
    {NoArray} \cup {[arr |-> TRUE, items |-> a] : a \in SeqsUpTo(ScorFields, MaxSurse)}

\* a reply: the request failed, an HTTP status (all the existence check
\* looks at), or a JSON body (all the list requests look at)
TopReply(k, code, total, surse) ==
    [k |-> k, code |-> code, total |-> total, surse |-> surse]

ExistsReplies ==
    {TopReply("err", 0, NotInt("missing"), NoArray)}
    \cup {TopReply("status", c, NotInt("missing"), NoArray) : c \in {200, 201, 404, 500}}

ListReplies ==
    {TopReply("err", 0, NotInt("missing"), NoArray)}
    \cup {TopReply("json", 200, c, NoArray) : c \in CountFields}
    \cup {TopReply("json", 200, NotInt("missing"), a) : a \in SurseFields}

Digits == {"0", "1", "2", "3", "4", "5", "6", "7", "8", "9"}
DigitVal(c) ==
    CASE c = "0" -> 0 [] c = "1" -> 1 [] c = "2" -> 2 [] c = "3" -> 3
      [] c = "4" -> 4 [] c = "5" -> 5 [] c = "6" -> 6 [] c = "7" -> 7
      [] c = "8" -> 8 [] c = "9" -> 9

RECURSIVE Horner(_, _)
Horner(ds, acc) ==
    IF ds = <<>> THEN acc ELSE Horner(Tail(ds), 10 * acc + DigitVal(ds[1]))

\* str::parse::<i64>: an optional sign and at least one digit, nothing else
\* (the strings here are far too short to overflow 64 bits)
parse_i64(str) ==
    LET signed == Len(str) > 0 /\ str[1] \in {"+", "-"}
        ds == IF signed THEN Tail(str) ELSE str
    IN  IF ds = <<>> \/ \E i \in 1..Len(ds) : ds[i] \notin Digits
        THEN RErr("ParseIntError")
        ELSE [ok |-> TRUE, err |-> "",
              v |-> IF signed /\ str[1] = "-" THEN 0 - Horner(ds, 0)
                    ELSE Horner(ds, 0)]

\* score.rs:220: sol["scor"].as_str().unwrap_or("-2").parse::<i64>()
entry_score(scor) ==
    parse_i64(IF scor.t = "str" THEN scor.s ELSE <<"-", "2">>)

\* variant: all scores must be 100
any_perfect_All(scores) == \A i \in DOMAIN scores : scores[i] = 100

\* score.rs:232
any_perfect(scores) == \E i \in DOMAIN scores : scores[i] = 100

\* variant: any 2xx status taken for "exists"
check_problem_exists_AnySuccess(reply) ==
    IF reply.k = "err" THEN [ok |-> FALSE, v |-> FALSE, err |-> "transport"]
    ELSE [ok |-> TRUE, v |-> (reply.code >= 200 /\ reply.code < 300), err |-> ""]

\* check_problem_exists
check_problem_exists(reply) ==
    IF reply.k = "err" THEN [ok |-> FALSE, v |-> FALSE, err |-> "transport"]
    ELSE [ok |-> TRUE, v |-> (reply.code = 200), err |-> ""]

\* get_last_n_solutions
get_last_n_solutions(reply) ==
    IF reply.k = "err" THEN [ok |-> FALSE, err |-> "transport"]
    ELSE [ok |-> TRUE, err |-> ""]

Result(variant, why) == [variant |-> variant, why |-> why]

TopReturn(result) ==
    /\ tpc' = "done"
    /\ tres' = result

Request(step, n, reply) ==
    [step |-> step, n |-> n, ssid |-> session.ssid,
     user_id |-> session.user_id, reply |-> reply]

\* score.rs:178-182: one invocation of check_problem_exists under
\* try_repeated, and what follows its return
TopExists ==
    /\ tpc = "exists"
    /\ \E reply \in ExistsReplies :
        LET r == check_problem_exists(reply)
        IN  /\ tlog' = Append(tlog, Request("exists", <<0, 0>>, reply))
            /\ IF ~try_repeated_returns(TopAttempts, tmade, r)
               THEN tmade' = tmade + 1 /\ UNCHANGED <<tpc, tres>>
               ELSE /\ tmade' = 0
                    /\ IF ~r.ok THEN TopReturn(Result("PageError", r.err))
                       ELSE IF ~r.v THEN TopReturn(Result("ProblemNotFound", ""))
                       ELSE tpc' = "count" /\ UNCHANGED tres
    /\ UNCHANGED sol_number
    /\ UNCHANGED <<loginVars, pollVars, retryVars, getVars, configVars>>

\* score.rs:184-198: one invocation of get_last_n_solutions(.., 1) under
\* try_repeated, and what follows its return
TopCount ==
    /\ tpc = "count"
    /\ \E reply \in ListReplies :
        LET r == get_last_n_solutions(reply)
            total == as_i64(reply.total)
        IN  /\ tlog' = Append(tlog, Request("count", <<0, 1>>, reply))
            /\ IF ~try_repeated_returns(TopAttempts, tmade, r)
               THEN tmade' = tmade + 1 /\ UNCHANGED <<tpc, tres, sol_number>>
               ELSE /\ tmade' = 0
                    /\ IF ~r.ok
                       THEN TopReturn(Result("PageError", r.err))
                            /\ UNCHANGED sol_number
                       ELSE IF ~total.some
                       THEN TopReturn(Result("PageError", "no int"))
                            /\ UNCHANGED sol_number
                       ELSE IF ~fits_u32(total)
                       THEN TopReturn(Result("PageError", "no u32"))
                            /\ UNCHANGED sol_number
                       ELSE /\ sol_number' = as_u32(total)
                            /\ IF is_zero(sol_number')
                               THEN TopReturn(Result("NoSolution", ""))
                               ELSE tpc' = "full" /\ UNCHANGED tres
    /\ UNCHANGED <<loginVars, pollVars, retryVars, getVars, configVars>>

\* score.rs:200-236: one invocation of get_last_n_solutions(.., sol_number)
\* under try_repeated, and what follows its return
TopFull ==
    /\ tpc = "full"
    /\ \E reply \in ListReplies :
        LET r == get_last_n_solutions(reply)
            all_solutions == reply.surse.items
            parsed == [i \in DOMAIN all_solutions |-> entry_score(all_solutions[i])]
            scores == [i \in DOMAIN all_solutions |-> parsed[i].v]
        IN  /\ tlog' = Append(tlog, Request("full", sol_number, reply))
            /\ IF ~try_repeated_returns(TopAttempts, tmade, r)
               THEN tmade' = tmade + 1 /\ UNCHANGED <<tpc, tres>>
               ELSE /\ tmade' = 0
                    /\ IF ~r.ok THEN TopReturn(Result("PageError", r.err))
                       ELSE IF ~reply.surse.arr
                       THEN TopReturn(Result("PageError", "no array"))
                       ELSE IF \E i \in DOMAIN parsed : ~parsed[i].ok
                       THEN TopReturn(Result("PageError", "no score"))
                       ELSE IF any_perfect(scores)
                       THEN TopReturn(Result("PerfectSolution", ""))
                       ELSE TopReturn(Result("ImperfectSolution", ""))
    /\ UNCHANGED sol_number
    /\ UNCHANGED <<loginVars, pollVars, retryVars, getVars, configVars>>

\* no get_top_score call
TopIdle ==
    /\ tpc = "idle"
    /\ tmade = 0
    /\ tlog = <<>>
    /\ sol_number = <<0, 0>>
    /\ tres = Result("none", "not returned")

InitTop ==
    /\ tpc = "exists"
    /\ tmade = 0
    /\ tlog = <<>>
    /\ sol_number = <<0, 0>>
    /\ tres = Result("none", "not returned")

NextTop ==
    \/ TopExists
    \/ TopCount
    \/ TopFull

\* a get_top_score call that found the problem and one solution and is about
\* to make the last invocation of the third step, the others having failed
TopLate ==
    LET found == TopReply("status", 200, NotInt("missing"), NoArray)
        one == TopReply("json", 200, JInt(FALSE, <<0, 0, 0, 1>>), NoArray)
        failed == TopReply("err", 0, NotInt("missing"), NoArray)
    IN  /\ tpc = "full"
        /\ tmade = TopAttempts
        /\ tlog = <<Request("exists", <<0, 0>>, found),
                    Request("count", <<0, 1>>, one)>>
                  \o [i \in 1..TopAttempts |-> Request("full", <<0, 1>>, failed)]
        /\ sol_number = <<0, 1>>
        /\ tres = Result("none", "not returned")

-----------------------------------------------------------------------------
(* mod.rs: save_config and get_config *)

\* the fields of PbinfoUser, in the order of the struct (mod.rs:32-38)
Fields == <<"email", "password", "ssid", "form_token", "user_id">>

\* the characters of a field: a plain one and the two a TOML basic string
\* has to escape
FieldAlphabet == {"a", Quote, Backslash}
FieldStrings == SeqsUpTo(FieldAlphabet, MaxFieldLen)

\* sessions of one user whose password varies
ConfigSessions ==
    {[email |-> <<"e">>, password |-> pw, ssid |-> <<"r">>,
      form_token |-> <<"t">>, user_id |-> <<"7">>]
        : pw \in FieldStrings}

NoSession ==
    [email |-> <<>>, password |-> <<>>, ssid |-> <<>>, form_token |-> <<>>,
     user_id |-> <<>>]

Loaded(u) == [ok |-> TRUE, v |-> u, err |-> ""]
ConfigErr(e) == [ok |-> FALSE, v |-> NoSession, err |-> e]

\* s with a backslash before each of its characters that is in special
RECURSIVE escape_chars(_, _)
escape_chars(s, special) ==
    IF s = <<>> THEN <<>>
    ELSE (IF s[1] \in special THEN <<Backslash, s[1]>> ELSE <<s[1]>>)
         \o escape_chars(Tail(s), special)

\* variant: the characters written as they are
toml_escape_None(s) == escape_chars(s, {})

\* the text of a TOML basic string: a quote and a backslash are written
\* with a backslash before them
toml_escape(s) == escape_chars(s, {Quote, Backslash})

\* toml::to_string(self), mod.rs:113: one  key = "value"  line per field
toml_to_string(u) ==
    [i \in DOMAIN Fields |->
        [key |-> Fields[i], raw |-> <<Quote>> \o toml_escape(u[Fields[i]]) \o <<Quote>>]]

\* the reading of a basic string from its i-th character on: a backslash
\* takes the next character, which must be a quote or a backslash; a quote
\* ends the string and must end the value
RECURSIVE read_basic(_, _, _)
read_basic(raw, i, acc) ==
    IF i > Len(raw) THEN ConfigErr("unterminated")
    ELSE IF raw[i] = Backslash
    THEN IF i + 1 <= Len(raw) /\ raw[i + 1] \in {Quote, Backslash}
         THEN read_basic(raw, i + 2, Append(acc, raw[i + 1]))
         ELSE ConfigErr("escape")
    ELSE IF raw[i] = Quote
    THEN IF i = Len(raw) THEN [ok |-> TRUE, v |-> acc, err |-> ""]
         ELSE ConfigErr("trailing")
    ELSE read_basic(raw, i + 1, Append(acc, raw[i]))

parse_basic_string(raw) ==
    IF raw = <<>> \/ raw[1] # Quote THEN ConfigErr("no string")
    ELSE read_basic(raw, 2, <<>>)

\* toml::from_str::<PbinfoUser>, mod.rs:132: every field must be there, once,
\* and be a string
toml_from_str(doc) ==
    LET lines(k) == {i \in DOMAIN doc : doc[i].key = k}
        field(k) == parse_basic_string(doc[CHOOSE i \in lines(k) : TRUE].raw)
    IN  IF \E i \in DOMAIN Fields : Cardinality(lines(Fields[i])) # 1
        THEN ConfigErr("TomlParseError")
        ELSE IF \E i \in DOMAIN Fields : ~field(Fields[i]).ok
        THEN ConfigErr("TomlParseError")
        ELSE Loaded([email |-> field("email").v, password |-> field("password").v,
                     ssid |-> field("ssid").v, form_token |-> field("form_token").v,
                     user_id |-> field("user_id").v])

NoFile == [exists |-> FALSE, doc |-> <<>>]
File(doc) == [exists |-> TRUE, doc |-> doc]
NoSave == [some |-> FALSE, u |-> NoSession]

\* mod.rs:93-121: save_config; the file is emptied by File::create before
\* it is written
save_config ==
    /\ \E outcome \in {"NoHomeDirError", "create_dir_all", "create", "write", "ok"} :
        CASE outcome = "NoHomeDirError" ->
                /\ sres' = "NoHomeDirError"
                /\ UNCHANGED <<disk, saved>>
          [] outcome = "create_dir_all" ->
                /\ ~disk.exists
                /\ sres' = "WriteError"
                /\ UNCHANGED <<disk, saved>>
          [] outcome = "create" ->
                /\ sres' = "WriteError"
                /\ UNCHANGED <<disk, saved>>
          [] outcome = "write" ->
                /\ sres' = "WriteError"
                /\ disk' = File(<<>>)
                /\ saved' = NoSave
          [] outcome = "ok" ->
                /\ sres' = "Ok"
                /\ disk' = File(toml_to_string(session))
                /\ saved' = [some |-> TRUE, u |-> session]
    /\ UNCHANGED loaded
    /\ UNCHANGED <<loginVars, pollVars, retryVars, topVars, getVars>>

\* mod.rs:124-136: get_config
get_config ==
    /\ \E outcome \in {"NoHomeDirError", "ReadConfigError", "read"} :
        /\ outcome = "read" => disk.exists
        /\ loaded' = [res |-> IF outcome = "read" THEN toml_from_str(disk.doc)
                              ELSE ConfigErr(outcome),
                      after |-> saved]
    /\ UNCHANGED <<disk, sres, saved>>
    /\ UNCHANGED <<loginVars, pollVars, retryVars, topVars, getVars>>

\* mod.rs:151-153: the caller changes the password through get_mut_password
set_password ==
    /\ \E pw \in FieldStrings : session' = [session EXCEPT !.password = pw]
    /\ UNCHANGED <<lpc, llog, lres, pre, lreplies, lprobes>>
    /\ UNCHANGED <<pollVars, retryVars, topVars, getVars, configVars>>

\* no file, nothing saved or loaded
ConfigIdle ==
    /\ disk = NoFile
    /\ sres = "not returned"
    /\ saved = NoSave
    /\ loaded = [res |-> ConfigErr("not returned"), after |-> NoSave]

\* the file an earlier run or an editor may have left
InitialFiles ==
    {NoFile, File(<<>>), File(<<[key |-> "email", raw |-> <<"a">>]>>)}
    \cup {File(toml_to_string(u)) : u \in {v \in ConfigSessions : v.password = <<>>}}

InitConfig ==
    /\ disk \in InitialFiles
    /\ sres = "not returned"
    /\ saved = NoSave
    /\ loaded = [res |-> ConfigErr("not returned"), after |-> NoSave]

NextConfig ==
    \/ save_config
    \/ get_config
    \/ set_password

-----------------------------------------------------------------------------
(* login.rs *)

\* try_get_ssid: the text between the first and the second "=" of the first
\* ";"-segment of the set-cookie header
try_get_ssid(header) ==
    IF header.k = "absent" THEN Err("NoCookieError")
    ELSE IF header.k = "opaque" THEN Err("HeaderParseError")
    ELSE LET new_ssid_cookie == Split(header.s, ";")[1]
             parts == Split(new_ssid_cookie, "=")
         IN  IF Len(parts) >= 2 THEN Ok(parts[2]) ELSE Err("CookieParseError")

\* get_user_id: what follows the first marker in the page, up to the next
\* marker, cut at the first comma
get_user_id(reply) ==
    IF reply.k # "body" THEN Err(reply.k)
    ELSE LET parts == Split(reply.s, "M")
         IN  IF Len(parts) >= 2
             THEN Ok(TakeWhileNot(parts[2], ","))
             ELSE Err("ResponseParseError")

\* variant: the id "0" taken for an authenticated one
AlreadyAuthenticated_IgnoresZero(user_id) == user_id # <<>>

\* login.rs:181
AlreadyAuthenticated(user_id) == user_id # <<"0">> /\ user_id # <<>>

\* variant: the probed id written before the test
after_first_probe_AlwaysWrites(u, user_id) == [u EXCEPT !.user_id = user_id]

\* variant: the candidate not written before the login POST
after_first_probe_NeverWrites(u, user_id) == u

\* login.rs:181-184: the session after the first probe: the probed id is
\* written only when it does not denote an authenticated user
after_first_probe(u, user_id) ==
    IF AlreadyAuthenticated(user_id) THEN u ELSE [u EXCEPT !.user_id = user_id]

\* variant: the result of the second probe dropped
after_second_probe_Drops(u, user_id) == u

\* login.rs:198 and 209: the session after the second probe
after_second_probe(u, user_id) == [u EXCEPT !.user_id = user_id]

\* login.rs:190
IsFormExpired(raspuns) == ValueEqStr(raspuns, FormExpiredMsg)

\* login.rs:205
IsIncorrect(raspuns) == ValueEqStr(raspuns, IncorrectMsg)

\* login.rs:191-195
RefreshedToken(form_token) ==
    TrimEndMatches(TrimStartMatches(ValueToString(form_token), Quote), Quote)

ProbeReq(u) == [kind |-> "probe", ssid |-> u.ssid, form_token |-> <<>>]
PostReq(u) == [kind |-> "post", ssid |-> u.ssid, form_token |-> u.form_token]

\* the locals maybe_ssid and val once a POST has been answered
Answered(reply) ==
    [send |-> reply.send,
     maybe_ssid |-> IF reply.send = "ok" THEN try_get_ssid(reply.header)
                    ELSE Err("no response"),
     body |-> reply.body, raspuns |-> reply.raspuns,
     form_token |-> reply.form_token]

\* what the replies of the site make of the locals after a POST, and of
\* get_user_id's result
PostAnswers == {Answered(reply) : reply \in PostReplies}
ProbeResults == {get_user_id(reply) : reply \in ProbeReplies}

Return(result) ==
    /\ lpc' = "done"
    /\ lres' = result

\* login.rs:180-184: the first identity probe
LoginProbe1 ==
    /\ lpc = "start"
    /\ \E user_id \in ProbeResults :
        /\ llog' = Append(llog, ProbeReq(session))
        /\ lprobes' = Append(lprobes, user_id)
        /\ IF ~user_id.ok
           THEN Return(Err(user_id.err)) /\ UNCHANGED session
           ELSE /\ session' = after_first_probe(session, user_id.v)
                /\ IF AlreadyAuthenticated(user_id.v)
                   THEN Return(Ok(<<>>))
                   ELSE lpc' = "post1" /\ UNCHANGED lres
    /\ UNCHANGED <<pre, lreplies>>
    /\ UNCHANGED <<pollVars, retryVars, topVars, getVars, configVars>>

\* variant: a failed cookie extraction passed over, the old cookie kept
LoginPost1_CookieUnchecked ==
    /\ lpc = "post1"
    /\ \E a \in PostAnswers :
        /\ llog' = Append(llog, PostReq(session))
        /\ lreplies' = Append(lreplies, a)
        /\ IF a.send # "ok"
           THEN Return(Err(a.send)) /\ UNCHANGED session
           ELSE IF a.body # "ok"
           THEN Return(Err(a.body)) /\ UNCHANGED session
           ELSE IF IsFormExpired(a.raspuns)
           THEN /\ session' = [session EXCEPT
                                 !.form_token = RefreshedToken(a.form_token)]
                /\ lpc' = "post2"
                /\ UNCHANGED lres
           ELSE /\ session' = IF a.maybe_ssid.ok
                              THEN [session EXCEPT !.ssid = a.maybe_ssid.v]
                              ELSE session
                /\ lpc' = "probe2"
                /\ UNCHANGED lres
    /\ UNCHANGED <<pre, lprobes>>
    /\ UNCHANGED <<pollVars, retryVars, topVars, getVars, configVars>>

\* login.rs:186-200: the first login POST, up to the next request
LoginPost1 ==
    /\ lpc = "post1"
    /\ \E a \in PostAnswers :
        /\ llog' = Append(llog, PostReq(session))
        /\ lreplies' = Append(lreplies, a)
        /\ IF a.send # "ok"
           THEN Return(Err(a.send)) /\ UNCHANGED session
           ELSE IF a.body # "ok"
           THEN Return(Err(a.body)) /\ UNCHANGED session
           ELSE IF IsFormExpired(a.raspuns)
           THEN /\ session' = [session EXCEPT
                                 !.form_token = RefreshedToken(a.form_token)]
                /\ lpc' = "post2"
                /\ UNCHANGED lres
           ELSE IF ~a.maybe_ssid.ok
           THEN Return(Err(a.maybe_ssid.err)) /\ UNCHANGED session
           ELSE /\ session' = [session EXCEPT !.ssid = a.maybe_ssid.v]
                /\ lpc' = "probe2"
                /\ UNCHANGED lres
    /\ UNCHANGED <<pre, lprobes>>
    /\ UNCHANGED <<pollVars, retryVars, topVars, getVars, configVars>>

\* variant: the second attempt treats "form expired" as the first does and
\* posts again
LoginPost2_Recursing ==
    /\ lpc = "post2"
    /\ \E a \in PostAnswers :
        /\ llog' = Append(llog, PostReq(session))
        /\ lreplies' = Append(lreplies, a)
        /\ IF a.send # "ok"
           THEN Return(Err(a.send)) /\ UNCHANGED session
           ELSE IF a.body # "ok"
           THEN Return(Err(a.body)) /\ UNCHANGED session
           ELSE IF IsFormExpired(a.raspuns)
           THEN /\ session' = [session EXCEPT
                                 !.form_token = RefreshedToken(a.form_token)]
                /\ UNCHANGED <<lpc, lres>>
           ELSE IF IsIncorrect(a.raspuns)
           THEN Return(Err("IncorrectUsernameOrPasswordError"))
                /\ UNCHANGED session
           ELSE IF ~a.maybe_ssid.ok
           THEN Return(Err(a.maybe_ssid.err)) /\ UNCHANGED session
           ELSE /\ session' = [session EXCEPT !.ssid = a.maybe_ssid.v]
                /\ lpc' = "probe2"
                /\ UNCHANGED lres
    /\ UNCHANGED <<pre, lprobes>>
    /\ UNCHANGED <<pollVars, retryVars, topVars, getVars, configVars>>

\* variant: the second attempt refreshes the token again on "form expired"
\* before it goes on
LoginPost2_RefreshesAgain ==
    /\ lpc = "post2"
    /\ \E a \in PostAnswers :
        LET u == IF IsFormExpired(a.raspuns)
                 THEN [session EXCEPT !.form_token = RefreshedToken(a.form_token)]
                 ELSE session
        IN  /\ llog' = Append(llog, PostReq(session))
            /\ lreplies' = Append(lreplies, a)
            /\ IF a.send # "ok"
               THEN Return(Err(a.send)) /\ UNCHANGED session
               ELSE IF a.body # "ok"
               THEN Return(Err(a.body)) /\ UNCHANGED session
               ELSE IF IsIncorrect(a.raspuns)
               THEN Return(Err("IncorrectUsernameOrPasswordError"))
                    /\ UNCHANGED session
               ELSE IF ~a.maybe_ssid.ok
               THEN Return(Err(a.maybe_ssid.err)) /\ session' = u
               ELSE /\ session' = [u EXCEPT !.ssid = a.maybe_ssid.v]
                    /\ lpc' = "probe2"
                    /\ UNCHANGED lres
    /\ UNCHANGED <<pre, lprobes>>
    /\ UNCHANGED <<pollVars, retryVars, topVars, getVars, configVars>>

\* login.rs:202-208: the second login POST, up to the next request
LoginPost2 ==
    /\ lpc = "post2"
    /\ \E a \in PostAnswers :
        /\ llog' = Append(llog, PostReq(session))
        /\ lreplies' = Append(lreplies, a)
        /\ IF a.send # "ok"
           THEN Return(Err(a.send)) /\ UNCHANGED session
           ELSE IF a.body # "ok"
           THEN Return(Err(a.body)) /\ UNCHANGED session
           ELSE IF IsIncorrect(a.raspuns)
           THEN Return(Err("IncorrectUsernameOrPasswordError"))
                /\ UNCHANGED session
           ELSE IF ~a.maybe_ssid.ok
           THEN Return(Err(a.maybe_ssid.err)) /\ UNCHANGED session
           ELSE /\ session' = [session EXCEPT !.ssid = a.maybe_ssid.v]
                /\ lpc' = "probe2"
                /\ UNCHANGED lres
    /\ UNCHANGED <<pre, lprobes>>
    /\ UNCHANGED <<pollVars, retryVars, topVars, getVars, configVars>>

\* login.rs:198-199 and 209-210: the identity probe with the new cookie
LoginProbe2 ==
    /\ lpc = "probe2"
    /\ \E user_id \in ProbeResults :
        /\ llog' = Append(llog, ProbeReq(session))
        /\ lprobes' = Append(lprobes, user_id)
        /\ IF ~user_id.ok
           THEN Return(Err(user_id.err)) /\ UNCHANGED session
           ELSE /\ session' = after_second_probe(session, user_id.v)
                /\ Return(Ok(<<>>))
    /\ UNCHANGED <<pre, lreplies>>
    /\ UNCHANGED <<pollVars, retryVars, topVars, getVars, configVars>>

\* a session as PbinfoUser::new makes it (placeholder cookie "r" and token
\* "t", no user id) and sessions as get_config loads them
InitialSessions ==
    {[email |-> "e", password |-> "p", ssid |-> <<"r">>,
      form_token |-> <<"t">>, user_id |-> <<>>],
     [email |-> "e", password |-> "p", ssid |-> <<"a">>,
      form_token |-> <<"a">>, user_id |-> <<"7">>]}

\* no login call
LoginIdle ==
    /\ lpc = "idle"
    /\ llog = <<>>
    /\ lres = Err("not returned")
    /\ lreplies = <<>>
    /\ lprobes = <<>>

InitLogin ==
    /\ session \in InitialSessions
    /\ pre = session
    /\ lpc = "start"
    /\ llog = <<>>
    /\ lres = Err("not returned")
    /\ lreplies = <<>>
    /\ lprobes = <<>>
    /\ PollIdle
    /\ RetryIdle
    /\ TopIdle
    /\ GetIdle
    /\ ConfigIdle

NextLogin ==
    \/ LoginProbe1
    \/ LoginPost1
    \/ LoginPost2
    \/ LoginProbe2

SpecLogin == InitLogin /\ [][NextLogin]_vars

\* a pool_score call on some session
InitPollSpec ==
    /\ session \in InitialSessions
    /\ pre = session
    /\ LoginIdle
    /\ InitPoll
    /\ RetryIdle
    /\ TopIdle
    /\ GetIdle
    /\ ConfigIdle

SpecPoll == InitPollSpec /\ [][NextPoll]_vars

\* a try_repeated call
InitRetrySpec ==
    /\ session \in InitialSessions
    /\ pre = session
    /\ LoginIdle
    /\ PollIdle
    /\ InitRetry
    /\ TopIdle
    /\ GetIdle
    /\ ConfigIdle

SpecRetry == InitRetrySpec /\ [][NextRetry]_vars

\* a get_top_score call on some session
InitTopSpec ==
    /\ session \in InitialSessions
    /\ pre = session
    /\ LoginIdle
    /\ PollIdle
    /\ RetryIdle
    /\ InitTop
    /\ GetIdle
    /\ ConfigIdle

SpecTop == InitTopSpec /\ [][NextTop]_vars

\* the operations of score.rs on one session, alone from their start or
\* together: a pool_score call and a get_top_score call each at its last
\* request, and the caller's own get_score calls
InitScoreSpec ==
    /\ session \in InitialSessions
    /\ pre = session
    /\ LoginIdle
    /\ RetryIdle
    /\ ConfigIdle
    /\ \/ InitPoll /\ TopIdle /\ GetIdle
       \/ PollIdle /\ InitTop /\ GetIdle
       \/ PollIdle /\ TopIdle /\ InitGet(MaxCalls)
       \/ PollLate /\ TopLate /\ GetIdle
       \/ PollLate /\ TopIdle /\ InitGet(1)
       \/ PollIdle /\ TopLate /\ InitGet(1)

NextScore ==
    \/ NextPoll
    \/ NextTop
    \/ GetScoreCall

SpecScore == InitScoreSpec /\ [][NextScore]_vars

\* saving and loading the configuration, the password changing in between
InitConfigSpec ==
    /\ session \in ConfigSessions
    /\ pre = session
    /\ LoginIdle
    /\ PollIdle
    /\ RetryIdle
    /\ TopIdle
    /\ GetIdle
    /\ InitConfig

SpecConfig == InitConfigSpec /\ [][NextConfig]_vars

-----------------------------------------------------------------------------
(* Properties of login *)

Posts == {i \in DOMAIN llog : llog[i].kind = "post"}
NumPosts == Cardinality(Posts)

\* the reply carried a readable JSON body whose raspuns is the message msg
Carries(a, msg) == a.send = "ok" /\ a.body = "ok" /\ a.raspuns = JStr(msg)

\* C1: when the first identity probe succeeds, a login call that has
\* returned issued no login POST and returned success if the probed id is
\* neither "" nor "0", and issued at least one login POST if it is "" or "0".
C1_ProbeDecidesPosts ==
    (lpc = "done" /\ Len(lprobes) >= 1 /\ lprobes[1].ok) =>
        IF lprobes[1].v \notin {<<>>, <<"0">>}
        THEN NumPosts = 0 /\ lres.ok
        ELSE NumPosts >= 1

C1_Witness ==
    /\ lpc = "done"
    /\ lprobes[1] = Ok(<<"7">>)
    /\ lres.ok
    /\ NumPosts = 0

C1_WitnessPost ==
    /\ lpc = "done"
    /\ lprobes[1] = Ok(<<"0">>)
    /\ NumPosts = 2

\* C2: no login call issues more than two login POSTs; when the first POST
\* is answered "form expired", the call issues exactly one more POST, that
\* POST carries the token taken from the first reply's form_token field, and
\* the token is still that one when the call returns, whatever the second
\* reply was: the token was refreshed once and no third POST was issued.
C2_ExpiredRetriesOnce ==
    /\ NumPosts <= 2
    /\ Len(lreplies) <= 2
    /\ (Len(lreplies) >= 1 /\ Carries(lreplies[1], FormExpiredMsg)) =>
          /\ session.form_token = RefreshedToken(lreplies[1].form_token)
          /\ \A t \in SeqsUpTo({"a"}, MaxTokenLen) :
                lreplies[1].form_token = JStr(t) => session.form_token = t
          /\ lpc \in {"post2", "probe2", "done"}
          /\ lpc = "post2" => NumPosts = 1
          /\ lpc # "post2" =>
                /\ NumPosts = 2
                /\ llog[3] = [kind |-> "post", ssid |-> pre.ssid,
                              form_token |-> session.form_token]
    /\ (Len(lreplies) >= 1 /\ ~Carries(lreplies[1], FormExpiredMsg)) =>
          /\ NumPosts = 1
          /\ session.form_token = pre.form_token

C2_Witness ==
    /\ lpc = "done"
    /\ Len(lreplies) = 2
    /\ Carries(lreplies[1], FormExpiredMsg)
    /\ lreplies[1].form_token = JStr(<<"a">>)
    /\ Carries(lreplies[2], FormExpiredMsg)
    /\ lreplies[2].form_token = JNull
    /\ session.form_token = <<"a">>
    /\ NumPosts = 2

\* C3: when the reply to the last login POST issued carries the "incorrect
\* username/password" message, login has failed with the credentials
\* error, has issued no request after that POST and has left the session
\* cookie as it was.
C3_IncorrectIsFinal ==
    (Len(lreplies) >= 1
     /\ (Len(lreplies) = 2 \/ ~Carries(lreplies[1], FormExpiredMsg))
     /\ Carries(lreplies[Len(lreplies)], IncorrectMsg)) =>
        /\ lpc = "done"
        /\ lres = Err("IncorrectUsernameOrPasswordError")
        /\ llog[Len(llog)].kind = "post"
        /\ session.ssid = pre.ssid

-----------------------------------------------------------------------------
(* Properties of pool_score *)

Events(ev) == {i \in DOMAIN plog : plog[i].ev = ev}
Fetched(st) == {i \in Events("fetch") : plog[i].status = st}
NumStill == Cardinality(Fetched("StillExecuting"))

\* C4: once the fetches of the loop have returned StillExecuting k times and
\* then DoneExecuting(payload), k is below 60 and the call makes one more
\* fetch and returns payload as it was; it has then made k+1 fetches in the
\* loop and 1 after it, and k+1 waits of 1500 ms: one first and one right
\* after each StillExecuting.
C4_PollDone ==
    (Fetched("DoneExecuting") # {}) =>
        LET k == NumStill
            d == CHOOSE i \in Fetched("DoneExecuting") : TRUE
        IN  /\ k < 60
            /\ Fetched("Err") = {}
            /\ Cardinality(Events("fetch")) = k + 1
            /\ d = 2 * k + 2
            /\ Cardinality(Events("sleep")) = k + 1
            /\ \A i \in Events("sleep") : plog[i].ms = 1500
            /\ Events("sleep") = {1} \cup {i + 1 : i \in Fetched("StillExecuting")}
            /\ plog[d].table # <<>>
            /\ plog[d].table[1].status_sursa \notin {JStr("executing"), JStr("pending")}
            /\ ppc \in {"extra", "done"}
            /\ ppc = "extra" => Events("extra") = {}
            /\ ppc = "done" =>
                  /\ Events("extra") = {d + 1}
                  /\ Len(plog) = d + 1
                  /\ pres.ok
                  /\ pres.value = plog[d].table

C4_Witness ==
    /\ ppc = "done"
    /\ pres.ok
    /\ NumStill = 59
    /\ plog[Len(plog)].status = "DoneExecuting"
    /\ plog[Len(plog)].table # pres.value

\* C5: a call whose every fetch returned StillExecuting fails, once
\* returned, with the timeout error after exactly 60 fetches and no fetch
\* after the loop; a call fails with the timeout error only so; and no call
\* makes more than 61 status requests.
C5_PollTimeout ==
    /\ Cardinality(Events("fetch")) + Cardinality(Events("extra")) <= 61
    /\ (ppc = "done" /\ Events("fetch") = Fetched("StillExecuting")) =>
          /\ pres = ScoreErr("TimeoutError")
          /\ Cardinality(Events("fetch")) = 60
          /\ Events("extra") = {}
    /\ (ppc = "done" /\ pres = ScoreErr("TimeoutError")) =>
          /\ Events("fetch") = Fetched("StillExecuting")
          /\ Cardinality(Events("fetch")) = 60

C5_Witness ==
    /\ ppc = "done"
    /\ pres = ScoreErr("TimeoutError")
    /\ NumStill = 60

-----------------------------------------------------------------------------
(* Properties of try_repeated *)

Failures == {i \in DOMAIN rcalls : ~rcalls[i].ok}
Successes == {i \in DOMAIN rcalls : rcalls[i].ok}

\* C6: when f has failed on its first N-1 invocations and succeeded on
\* invocation N, try_repeated(N, f) has returned that success and f has been
\* invoked exactly N times.
C6_SuccessOnNth ==
    (attempts >= 1 /\ Len(rcalls) >= attempts
     /\ Failures \cap (1..attempts) = 1..(attempts - 1)) =>
        /\ rpc = "done"
        /\ Len(rcalls) = attempts
        /\ rres = rcalls[attempts]
        /\ rres.ok

C6_Witness ==
    /\ attempts = 3
    /\ rpc = "done"
    /\ rcalls = <<RErr("e1"), RErr("e2"), ROk(2)>>
    /\ rres = ROk(2)

\* C7: try_repeated(N, f) invokes f at most N+1 times; a success is the last
\* invocation and is what the call returns; the call returns an error only
\* when N+1 invocations have all failed, and then the error of invocation
\* N+1; after N failures a success of invocation N+1 is returned.
C7_RetryShape ==
    /\ Len(rcalls) <= attempts + 1
    /\ \A i \in Successes :
          /\ i = Len(rcalls)
          /\ rpc = "done"
          /\ rres = rcalls[i]
    /\ (rpc = "done" /\ ~rres.ok) =>
          /\ Len(rcalls) = attempts + 1
          /\ Failures = 1..(attempts + 1)
          /\ rres = rcalls[attempts + 1]
    /\ rpc = "done" => rres = rcalls[Len(rcalls)]
    /\ rpc # "done" => Successes = {} /\ Len(rcalls) <= attempts

C7_Witness ==
    /\ attempts = 3
    /\ rpc = "done"
    /\ rcalls = <<RErr("e1"), RErr("e1"), RErr("e1"), RErr("e2")>>
    /\ rres = RErr("e2")

C7_WitnessLateSuccess ==
    /\ attempts = 3
    /\ rpc = "done"
    /\ Failures = 1..3
    /\ rres = ROk(1)

-----------------------------------------------------------------------------
(* Properties of get_top_score *)

Steps(step) == {i \in DOMAIN tlog : tlog[i].step = step}
Answer(i) == tlog[i].reply
Str(x) == JStr(x)
Hundred == <<"1", "0", "0">>
Eighty == <<"8", "0">>

\* C8: once an existence check has completed with a status other than 200,
\* the call has returned ProblemNotFound, that check was its last request,
\* and it has issued no submission-list request, count probe or full list.
C8_AbsentIsNotFound ==
    \A i \in Steps("exists") :
        (Answer(i).k = "status" /\ Answer(i).code # 200) =>
            /\ tpc = "done"
            /\ tres = Result("ProblemNotFound", "")
            /\ i = Len(tlog)
            /\ Steps("count") = {}
            /\ Steps("full") = {}

C8_Witness ==
    /\ tpc = "done"
    /\ tres = Result("ProblemNotFound", "")
    /\ Len(tlog) = 2
    /\ Answer(1).k = "err"
    /\ Answer(2).code = 201

ZeroTotal(i) ==
    /\ i \in Steps("count")
    /\ Answer(i).k = "json"
    /\ Answer(i).total = JInt(FALSE, <<0, 0, 0, 0>>)

\* C9, as claimed: once a count probe has been answered with a total of 0,
\* the call has returned NoSolution and has issued exactly one
\* submission-list request, and no full-list request.
C9_ExactlyOneListRequest ==
    \A i \in DOMAIN tlog :
        ZeroTotal(i) =>
            /\ tpc = "done"
            /\ tres = Result("NoSolution", "")
            /\ Cardinality(Steps("count") \cup Steps("full")) = 1
            /\ Steps("full") = {}

\* C9, amended: once a count probe has been answered with a total of 0, the
\* call has returned NoSolution; that probe was its last request; it has
\* issued between one and four submission-list requests, each a count probe
\* asking for 1 solution and each but the last failed in transport, and no
\* full-list request.
C9_ZeroCountNoSolution ==
    \A i \in DOMAIN tlog :
        ZeroTotal(i) =>
            /\ tpc = "done"
            /\ tres = Result("NoSolution", "")
            /\ i = Len(tlog)
            /\ Cardinality(Steps("count")) \in 1..4
            /\ \A j \in Steps("count") :
                  /\ tlog[j].n = <<0, 1>>
                  /\ j # i => Answer(j).k = "err"
            /\ Steps("full") = {}
            /\ \E j \in Steps("exists") : Answer(j).code = 200

C9_Witness ==
    /\ tpc = "done"
    /\ tres = Result("NoSolution", "")
    /\ Cardinality(Steps("count")) = 4
    /\ ZeroTotal(Len(tlog))

FullArray(i) ==
    /\ i \in Steps("full")
    /\ Answer(i).k = "json"
    /\ Answer(i).surse.arr

Items(i) == Answer(i).surse.items

\* C10: once the full list has been obtained as an array whose every score
\* parses (a missing or non-string score counting as -2), the call has
\* returned PerfectSolution if some entry's score is 100 and
\* ImperfectSolution if none is, as for the lists ["80","100","-2"],
\* ["80","45"], [], and the lists of one unscored entry.
C10_PerfectIffHundred ==
    \A i \in DOMAIN tlog :
        FullArray(i) =>
            /\ (\A j \in DOMAIN Items(i) : entry_score(Items(i)[j]).ok) =>
                  /\ tpc = "done"
                  /\ i = Len(tlog)
                  /\ tres = IF \E j \in DOMAIN Items(i) :
                                  entry_score(Items(i)[j]).v = 100
                            THEN Result("PerfectSolution", "")
                            ELSE Result("ImperfectSolution", "")
            /\ Items(i) = <<Str(Eighty), Str(Hundred), Str(<<"-", "2">>)>> =>
                  tres = Result("PerfectSolution", "")
            /\ Items(i) = <<Str(Eighty), Str(Hundred)>> =>
                  tres = Result("PerfectSolution", "")
            /\ Items(i) = <<Str(Eighty), Str(<<"4", "5">>)>> =>
                  tres = Result("ImperfectSolution", "")
            /\ Items(i) = <<>> => tres = Result("ImperfectSolution", "")
            /\ Items(i) = <<[t |-> "missing", s |-> <<>>]>> =>
                  tres = Result("ImperfectSolution", "")
            /\ Items(i) = <<[t |-> "num", s |-> Hundred]>> =>
                  tres = Result("ImperfectSolution", "")

C10_Witness ==
    /\ tpc = "done"
    /\ tres = Result("PerfectSolution", "")
    /\ FullArray(Len(tlog))
    /\ Items(Len(tlog)) = <<Str(Eighty), Str(Hundred)>>

C10_WitnessImperfect ==
    /\ tpc = "done"
    /\ tres = Result("ImperfectSolution", "")
    /\ FullArray(Len(tlog))
    /\ Items(Len(tlog)) = <<Str(Eighty), Str(<<"4", "5">>)>>

Variants ==
    {"PerfectSolution", "ImperfectSolution", "NoSolution", "ProblemNotFound",
     "PageError"}

\* each retried step has issued at most 4 requests; a call has one of the
\* five variants as its result exactly when it has returned
TopBounded ==
    /\ Cardinality(Steps("exists")) <= 4
    /\ Cardinality(Steps("count")) <= 4
    /\ Cardinality(Steps("full")) <= 4
    /\ Len(tlog) <= 12
    /\ tpc \in {"exists", "count", "full", "done"}
    /\ tpc = "done" <=> tres.variant \in Variants
    /\ tpc # "done" => tres.variant = "none"

\* C11: every get_top_score call returns, with exactly one of the five
\* variants, whatever the transport failures and the shapes of the replies:
\* it issues at most 4 requests in each retried step, at most 12 in all;
\* until it has returned it has no result and, whatever the reply, can take
\* its next step, and every step issues one more request; once it has
\* returned it takes no step, so its result stays.
C11_TopTerminates ==
    /\ []TopBounded
    /\ [](tpc # "done" => ENABLED NextTop)
    /\ [][tpc # "done" /\ Len(tlog') = Len(tlog) + 1]_vars

C11_Witness ==
    /\ tpc = "done"
    /\ tres.variant = "PageError"
    /\ Cardinality(Steps("exists")) = 4
    /\ Cardinality(Steps("count")) = 4
    /\ Cardinality(Steps("full")) = 4

-----------------------------------------------------------------------------
(* More properties of login *)

\* C12: when the first probe yields an id other than "" and "0", login has
\* returned at once and the session is as it was when the call began, in
\* all five fields; the probed id is not in user_id unless it already was.
C12_AuthenticatedPathFrame ==
    (Len(lprobes) >= 1 /\ lprobes[1].ok /\ lprobes[1].v \notin {<<>>, <<"0">>}) =>
        /\ lpc = "done"
        /\ session.email = pre.email
        /\ session.password = pre.password
        /\ session.ssid = pre.ssid
        /\ session.form_token = pre.form_token
        /\ session.user_id = pre.user_id

C12_Witness ==
    /\ lpc = "done"
    /\ lres.ok
    /\ lprobes = <<Ok(<<"7">>)>>
    /\ pre.user_id = <<>>
    /\ session.user_id = <<>>

-----------------------------------------------------------------------------
(* Properties of the operations of score.rs on a shared session *)

\* C13: while get_score, pool_score and get_top_score calls run on one
\* session, alone or interleaved, and no login does, the session stays as
\* it was at the start in every field, and every request any of them has
\* sent carried the session's initial cookie and, where it names the user,
\* the initial user_id.
C13_ScoreOpsOnlyRead ==
    /\ session = pre
    /\ \A i \in DOMAIN plog :
        plog[i].ev \in {"fetch", "extra"} => plog[i].ssid = pre.ssid
    /\ \A i \in DOMAIN tlog :
        tlog[i].ssid = pre.ssid /\ tlog[i].user_id = pre.user_id
    /\ \A i \in DOMAIN glog : glog[i].ssid = pre.ssid

\* a pool_score call and a get_top_score call have both returned, their
\* last requests interleaved with each other
C13_Witness ==
    /\ ppc = "done"
    /\ pres.ok
    /\ Len(plog) = 2 * PollTries + 1
    /\ tpc = "done"
    /\ tres.variant = "PerfectSolution"
    /\ Len(tlog) = 6

\* C14: a get_score call whose reply parsed as JSON returns StillExecuting
\* when the status_sursa field is the string "executing" or "pending", and
\* otherwise (another string, or no such field) DoneExecuting with the
\* reply itself as its value.
C14_StatusMapping ==
    \A i \in DOMAIN glog :
        LET reply == glog[i].reply
            result == glog[i].result
        IN  reply.k = "json" =>
                IF reply.status_sursa \in {JStr("executing"), JStr("pending")}
                THEN result = StillExecuting
                ELSE /\ result.ok
                     /\ result.status = "DoneExecuting"
                     /\ result.value = <<reply>>

C14_Witness ==
    /\ Len(glog) = 2
    /\ glog[1].reply.status_sursa = JStr("pending")
    /\ glog[1].result = StillExecuting
    /\ glog[2].reply.status_sursa = NoMsg
    /\ glog[2].reply.k = "json"
    /\ glog[2].result.status = "DoneExecuting"

-----------------------------------------------------------------------------
(* Properties of save_config and get_config *)

-----------------------------------------------------------------------------
(* Further properties of login *)

\* C16: whenever login has returned success, the session's user_id is
\* neither "" nor "0".
C16_SuccessMeansAuthenticated ==
    (lpc = "done" /\ lres.ok) => session.user_id \notin {<<>>, <<"0">>}

LastReply == lreplies[Len(lreplies)]
LastRequest == llog[Len(llog)]
CookieErrors == {"NoCookieError", "HeaderParseError", "CookieParseError"}

\* C17: when login has returned success after a login POST, the session's
\* ssid is the cookie extracted from the reply to the last POST, the last
\* request is an identity probe sent after every POST with that cookie, and
\* user_id is that second probe's result; and while the first reply was
\* "form expired" and is the only one, ssid is what it was at the start, so
\* the second POST goes out with the old cookie.
C17_SuccessThroughPost ==
    /\ (lpc = "done" /\ lres.ok /\ NumPosts >= 1) =>
            /\ Len(lreplies) = NumPosts
            /\ LastReply.maybe_ssid.ok
            /\ session.ssid = LastReply.maybe_ssid.v
            /\ LastRequest = [kind |-> "probe", ssid |-> LastReply.maybe_ssid.v,
                              form_token |-> <<>>]
            /\ \A i \in Posts : i < Len(llog)
            /\ Len(lprobes) = 2
            /\ lprobes[2].ok
            /\ session.user_id = lprobes[2].v
    /\ (Len(lreplies) >= 1 /\ Carries(lreplies[1], FormExpiredMsg)) =>
            /\ \A i \in Posts : llog[i].ssid = pre.ssid
            /\ Len(lreplies) = 1 => session.ssid = pre.ssid

C17_Witness ==
    /\ lpc = "done"
    /\ lres.ok
    /\ NumPosts = 2
    /\ lreplies[1].maybe_ssid = Ok(<<"a">>)
    /\ lreplies[2].maybe_ssid = Ok(<<>>)
    /\ session.ssid = <<>>
    /\ pre.user_id = <<>>
    /\ session.user_id = <<"7">>

\* the final attempt's response arrived without a usable cookie, and its
\* reply is not "form expired" on attempt 1 and not "incorrect
\* username/password"
CookieFailedOnFinalAttempt ==
    /\ Len(lreplies) >= 1
    /\ LastReply.send = "ok"
    /\ ~LastReply.maybe_ssid.ok
    /\ Len(lreplies) = 1 => ~Carries(LastReply, FormExpiredMsg)
    /\ ~Carries(LastReply, IncorrectMsg)

FailedWithCookieError ==
    /\ lpc = "done"
    /\ lres = Err(LastReply.maybe_ssid.err)
    /\ lres.err \in CookieErrors
    /\ session.ssid = pre.ssid
    /\ session.user_id = lprobes[1].v
    /\ LastRequest.kind = "post"
    /\ Len(lprobes) = 1

\* C18 as stated: whenever the cookie extraction of the final attempt
\* failed and its reply is neither of the two messages, login has failed
\* with the cookie error, ssid unchanged, user_id the first probe's
\* candidate, the POST its last request.
C18_CookieErrorSurfaces ==
    CookieFailedOnFinalAttempt => FailedWithCookieError

\* C18, amended: the same, for a reply whose body was read and parsed as
\* JSON; a body that was not makes login fail with that error instead.
C18_CookieErrorAfterParsedBody ==
    /\ (CookieFailedOnFinalAttempt /\ LastReply.body = "ok") => FailedWithCookieError
    /\ (CookieFailedOnFinalAttempt /\ LastReply.body # "ok") =>
            lpc = "done" /\ lres = Err(LastReply.body)

C18_Witness ==
    /\ CookieFailedOnFinalAttempt
    /\ Len(lreplies) = 2
    /\ LastReply.body = "ok"
    /\ lres = Err("CookieParseError")
    /\ pre.user_id = <<"7">>
    /\ session.user_id = <<"0">>

\* C19: when the second POST too is answered "form expired", no third POST
\* follows and form_token stays what the first reply made it; if a cookie
\* was extracted from the second response it is written and the identity
\* probe runs with it, its outcome the call's; if not, login fails with the
\* extraction error and ssid is unchanged.
C19_SecondExpiredIsGeneric ==
    (Len(lreplies) = 2 /\ Carries(lreplies[2], FormExpiredMsg)) =>
        /\ NumPosts = 2
        /\ session.form_token = RefreshedToken(lreplies[1].form_token)
        /\ IF LastReply.maybe_ssid.ok
           THEN /\ session.ssid = LastReply.maybe_ssid.v
                /\ lpc \in {"probe2", "done"}
                /\ lpc = "done" =>
                    /\ LastRequest = [kind |-> "probe", ssid |-> session.ssid,
                                      form_token |-> <<>>]
                    /\ Len(lprobes) = 2
                    /\ IF lprobes[2].ok THEN lres.ok
                       ELSE lres = Err(lprobes[2].err)
           ELSE /\ lpc = "done"
                /\ lres = Err(LastReply.maybe_ssid.err)
                /\ session.ssid = pre.ssid
                /\ LastRequest.kind = "post"

C19_Witness ==
    /\ lpc = "done"
    /\ lres.ok
    /\ Len(lreplies) = 2
    /\ Carries(lreplies[2], FormExpiredMsg)
    /\ lreplies[1].form_token = JStr(<<"a">>)
    /\ lreplies[2].form_token = JNum(<<"5">>)
    /\ session.form_token = <<"a">>

\* C20: when the send of a login POST fails, on either attempt, login has
\* returned that error and the POST is its last request, not repeated;
\* user_id is the first probe's candidate, ssid is unchanged, and
\* form_token is unchanged if it was the first attempt (refreshed from the
\* first reply if it was the second).
C20_PostTransportFailure ==
    \A k \in DOMAIN lreplies :
        lreplies[k].send # "ok" =>
            /\ k = Len(lreplies)
            /\ NumPosts = k
            /\ lpc = "done"
            /\ lres = Err(lreplies[k].send)
            /\ LastRequest.kind = "post"
            /\ Len(lprobes) = 1
            /\ session.user_id = lprobes[1].v
            /\ session.ssid = pre.ssid
            /\ session.form_token =
                IF k = 1 THEN pre.form_token
                ELSE RefreshedToken(lreplies[1].form_token)

C20_Witness ==
    /\ lpc = "done"
    /\ Len(lreplies) = 2
    /\ lreplies[2].send = "RequestSendError"
    /\ lres = Err("RequestSendError")
    /\ pre.user_id = <<"7">>
    /\ session.user_id = <<>>

-----------------------------------------------------------------------------
(* The frame of login *)

\* C21: at every point of a login call, so on every exit path, email and
\* password are what they were at the start; form_token differs from its
\* initial value only if the first POST's reply was "form expired"; ssid
\* differs from its initial value only if a cookie was extracted from the
\* last POST's response and that reply was not "incorrect
\* username/password".
C21_LoginFrame ==
    /\ session.email = pre.email
    /\ session.password = pre.password
    /\ session.form_token # pre.form_token =>
            Len(lreplies) >= 1 /\ Carries(lreplies[1], FormExpiredMsg)
    /\ session.ssid # pre.ssid =>
            /\ Len(lreplies) >= 1
            /\ LastReply.maybe_ssid.ok
            /\ ~Carries(LastReply, IncorrectMsg)

-----------------------------------------------------------------------------
(* Errors of the fetches of pool_score *)

FetchErrors == {"GenericError", "ParseJsonError"}

\* C22: a fetch of the loop that failed is the last thing the pool_score
\* call did, no fetch and no wait after it, and the call has returned that
\* error; a fetch after DoneExecuting, whatever it gave, an error included,
\* is the last thing the call did, and the call has returned the table of
\* the DoneExecuting fetch just before it.
C22_FetchErrors ==
    \A i \in DOMAIN plog :
        /\ (plog[i].ev = "fetch" /\ plog[i].status = "Err") =>
                /\ i = Len(plog)
                /\ ppc = "done"
                /\ pres = ScoreErr(plog[i].err)
                /\ plog[i].err \in FetchErrors
        /\ plog[i].ev = "extra" =>
                /\ i = Len(plog)
                /\ ppc = "done"
                /\ plog[i - 1].ev = "fetch"
                /\ plog[i - 1].status = "DoneExecuting"
                /\ pres.ok
                /\ pres.value = plog[i - 1].table

\* the third fetch failed and ended the call
C22_Witness ==
    /\ ppc = "done"
    /\ Cardinality(Events("fetch")) = 3
    /\ plog[Len(plog)].ev = "fetch"
    /\ pres = ScoreErr("ParseJsonError")

\* the extra fetch failed and the call returned the table all the same
C22_WitnessExtra ==
    /\ ppc = "done"
    /\ plog[Len(plog)].ev = "extra"
    /\ plog[Len(plog)].status = "Err"
    /\ pres.ok
    /\ pres.value # <<>>

-----------------------------------------------------------------------------
(* get_top_score: the existence check, the order of the requests, the count *)

\* the i-th request is an existence check that got a response, and every
\* request before it failed to
FirstResponse(i) ==
    /\ i \in Steps("exists")
    /\ Answer(i).k = "status"
    /\ \A j \in 1..(i - 1) : Answer(j).k = "err"

\* C23: the existence check is invoked at most 4 times; the call has
\* returned ProblemNotFound exactly when the first invocation that got a
\* response got a status other than 200, and that invocation was then the
\* last request of the call; it has returned PageError without going on to
\* the count probe exactly when 4 invocations were made and none got a
\* response.
C23_ExistenceCheck ==
    /\ Cardinality(Steps("exists")) <= 4
    /\ tres.variant = "ProblemNotFound" <=>
            \E i \in Steps("exists") : FirstResponse(i) /\ Answer(i).code # 200
    /\ \A i \in Steps("exists") :
            (FirstResponse(i) /\ Answer(i).code # 200) => i = Len(tlog)
    /\ (tres.variant = "PageError" /\ Steps("count") = {}) <=>
            /\ Cardinality(Steps("exists")) = 4
            /\ \A i \in Steps("exists") : Answer(i).k = "err"

\* three failures, then a 404
C23_Witness ==
    /\ tpc = "done"
    /\ tres.variant = "ProblemNotFound"
    /\ Len(tlog) = 4
    /\ \A i \in 1..3 : Answer(i).k = "err"
    /\ Answer(4).code = 404

\* four failures
C23_WitnessPageError ==
    /\ tpc = "done"
    /\ tres.variant = "PageError"
    /\ Len(tlog) = 4
    /\ \A i \in 1..4 : Answer(i).k = "err"

\* the i-th request is a count probe, asking for 1, whose reply was JSON
\* with an integer total from 1 to 2^32-1
PositiveTotal(i) ==
    /\ i \in Steps("count")
    /\ tlog[i].n = <<0, 1>>
    /\ Answer(i).k = "json"
    /\ Answer(i).total.t = "int"
    /\ ~Answer(i).total.neg
    /\ Answer(i).total.limbs[1] = 0
    /\ Answer(i).total.limbs[2] = 0
    /\ Answer(i).total.limbs # <<0, 0, 0, 0>>

\* C24: every count probe and every full list comes after an existence
\* check answered 200; every count probe asks for 1; every full list comes
\* after a count probe whose reply had a total above 0 and asks for exactly
\* that total; and a full list answered in JSON without an array in surse
\* is the last request, the call having returned PageError.
C24_RequestOrder ==
    /\ \A i \in Steps("count") \cup Steps("full") :
            \E j \in 1..(i - 1) :
                j \in Steps("exists") /\ Answer(j).k = "status" /\ Answer(j).code = 200
    /\ \A i \in Steps("count") : tlog[i].n = <<0, 1>>
    /\ \A i \in Steps("full") :
            \E j \in 1..(i - 1) :
                /\ PositiveTotal(j)
                /\ tlog[i].n = <<Answer(j).total.limbs[3], Answer(j).total.limbs[4]>>
    /\ \A i \in Steps("full") :
            (Answer(i).k = "json" /\ ~Answer(i).surse.arr) =>
                /\ i = Len(tlog)
                /\ tpc = "done"
                /\ tres.variant = "PageError"

\* 2^32-1 solutions counted, all asked for, the reply without an array
C24_Witness ==
    /\ tpc = "done"
    /\ tres = Result("PageError", "no array")
    /\ tlog[Len(tlog)].step = "full"
    /\ tlog[Len(tlog)].n = <<65535, 65535>>
    /\ Cardinality(Steps("count")) = 2

\* the total of a JSON reply is no count: missing, no integer, negative, or
\* above 2^32-1
BadTotal(t) ==
    \/ t.t # "int"
    \/ t.neg
    \/ t.limbs[1] # 0
    \/ t.limbs[2] # 0

\* C25: once a count probe has been answered in JSON, if the total is
\* missing, not an integer, negative or above 2^32-1 the call has returned
\* PageError, that probe its last request, no full list issued; otherwise
\* the total, all 32 bits of it, is the count: the call has not returned a
\* PageError over the count, has returned NoSolution at once if it is 0, and
\* asks for exactly it in every full list if it is not.
C25_CountParsing ==
    \A i \in Steps("count") :
        Answer(i).k = "json" =>
            LET t == Answer(i).total
            IN  IF BadTotal(t)
                THEN /\ tpc = "done"
                     /\ tres.variant = "PageError"
                     /\ i = Len(tlog)
                     /\ Steps("full") = {}
                ELSE /\ sol_number = <<t.limbs[3], t.limbs[4]>>
                     /\ tres.why \notin {"no int", "no u32"}
                     /\ IF t.limbs = <<0, 0, 0, 0>>
                        THEN tres.variant = "NoSolution" /\ i = Len(tlog)
                        ELSE /\ tpc \in {"full", "done"}
                             /\ tres.variant # "NoSolution"
                             /\ \A j \in Steps("full") :
                                    tlog[j].n = <<t.limbs[3], t.limbs[4]>>

\* 2^32-1 was accepted and asked for
C25_Witness ==
    /\ tpc = "done"
    /\ tres.variant = "PerfectSolution"
    /\ sol_number = <<65535, 65535>>
    /\ \E i \in Steps("count") : Answer(i).total = JInt(FALSE, <<0, 0, 65535, 65535>>)
    /\ \E j \in Steps("full") : tlog[j].n = <<65535, 65535>>

\* 2^32 was refused
C25_WitnessTooLarge ==
    /\ tpc = "done"
    /\ tres = Result("PageError", "no u32")
    /\ Answer(Len(tlog)).total = JInt(FALSE, <<0, 1, 0, 0>>)

====
